---- MODULE Spec2Model ----
(***************************************************************************)
(* Model of the Reed job-board client (jobspy/reed): the pagination loop   *)
(* of ReedScraper.scrape, the page fetch _fetch_jobs, the record           *)
(* normalisation _parse_job and the helpers of jobspy/reed/util.py.        *)
(*                                                                         *)
(* Python values are represented as follows.                               *)
(*   str          a sequence of one-character strings                      *)
(*   None / x     the optional value None == <<>> or Some(x) == <<x>>      *)
(*   dict entry   Absent (no such key), Null (key holds null), Val(v)      *)
(***************************************************************************)
EXTENDS Integers, Sequences, FiniteSets, TLC

VARIABLES
    pc,              \* position of the running scrape call
    scraper_input,   \* the caller's ScraperInput (results_wanted, offset)
    results_wanted,  \* scrape local, line 74
    results_per_page,\* scrape local, line 75
    results_to_skip, \* scrape local, line 76 / 119
    total_fetched,   \* scrape local, line 78 / 108
    job_list,        \* scrape local, line 72 / 107
    jobs_batch,      \* scrape local, line 88: the last value _fetch_jobs returned
    history,         \* the requests issued so far and what each one returned
    result,          \* None until scrape returns, then Some(jobs)
    vendor,          \* the vendor's result set (the environment of scrape)
    call,            \* the direct call under way: its function, then "returned"
    job_data,        \* argument of a direct _parse_job call
    job_post,        \* what that call returned
    location_name,   \* argument of a direct parse_location call
    location         \* what that call returned

vars == <<pc, scraper_input, results_wanted, results_per_page, results_to_skip,
          total_fetched, job_list, jobs_batch, history, result, vendor,
          call, job_data, job_post, location_name, location>>

scrapeVars == <<pc, scraper_input, results_wanted, results_per_page,
                results_to_skip, total_fetched, job_list, jobs_batch, history,
                result, vendor>>

parseVars == <<call, job_data, job_post, location_name, location>>

-----------------------------------------------------------------------------
(* Python values *)

None == <<>>

Some(x) == <<x>>

Absent == [t |-> "absent"]

Null == [t |-> "null"]

Val(v) == [t |-> "val", v |-> v]

Min(a, b) == IF a <= b THEN a ELSE b

\* dict.get(key): None when the key is missing or holds null
Get(entry) == IF entry.t = "val" THEN Some(entry.v) ELSE None

\* dict.get(key, ""): the default only replaces a missing key, not a null
GetOrEmpty(entry) ==
    IF entry.t = "absent" THEN Some(<<>>)
    ELSE IF entry.t = "null" THEN None
    ELSE Some(entry.v)

-----------------------------------------------------------------------------
(* str methods *)

\* the ASCII characters str.strip() removes: space, \t \n \x0b \x0c \r and
\* \x1c to \x1f (the texts of the model are ASCII)
Whitespace == {" ", "\t", "\n", "", "\f", "\r", "", "", "", ""}

IsSpace(c) == c \in Whitespace

RECURSIVE LStrip(_)
LStrip(s) ==
    IF s = <<>> THEN s
    ELSE IF IsSpace(Head(s)) THEN LStrip(Tail(s))
    ELSE s

RECURSIVE RStrip(_)
RStrip(s) ==
    IF s = <<>> THEN s
    ELSE IF IsSpace(s[Len(s)]) THEN RStrip(SubSeq(s, 1, Len(s) - 1))
    ELSE s

\* str.strip()
Strip(s) == RStrip(LStrip(s))

\* str.split(",", 1): cut at the first comma only
SplitOnce(s) ==
    IF \E i \in 1..Len(s) : s[i] = ","
    THEN LET i == CHOOSE k \in 1..Len(s) :
                      s[k] = "," /\ \A j \in 1..(k - 1) : s[j] # ","
         IN  <<SubSeq(s, 1, i - 1), SubSeq(s, i + 1, Len(s))>>
    ELSE <<s>>

\* str.split(","): cut at every comma
RECURSIVE Split(_)
Split(s) ==
    IF \E i \in 1..Len(s) : s[i] = ","
    THEN LET i == CHOOSE k \in 1..Len(s) :
                      s[k] = "," /\ \A j \in 1..(k - 1) : s[j] # ","
         IN  <<SubSeq(s, 1, i - 1)>> \o Split(SubSeq(s, i + 1, Len(s)))
    ELSE <<s>>

UpperCase == <<"A", "B", "C", "D", "E", "F", "G", "H", "I", "J", "K", "L", "M",
               "N", "O", "P", "Q", "R", "S", "T", "U", "V", "W", "X", "Y", "Z">>

LowerCase == <<"a", "b", "c", "d", "e", "f", "g", "h", "i", "j", "k", "l", "m",
               "n", "o", "p", "q", "r", "s", "t", "u", "v", "w", "x", "y", "z">>

\* the lower-case letter of each ASCII capital
UpperToLower ==
    [c \in {UpperCase[i] : i \in 1..Len(UpperCase)} |->
        LowerCase[CHOOSE i \in 1..Len(UpperCase) : UpperCase[i] = c]]

\* str.lower() of an ASCII text
Lower(s) ==
    [i \in 1..Len(s) |->
        IF s[i] \in DOMAIN UpperToLower THEN UpperToLower[s[i]] ELSE s[i]]

\* pattern in text
Contains(text, pattern) ==
    \E i \in 1..(Len(text) - Len(pattern) + 1) :
        SubSeq(text, i, i + Len(pattern) - 1) = pattern

\* " ".join(parts)
RECURSIVE JoinSpace(_)
JoinSpace(parts) ==
    IF parts = <<>> THEN <<>>
    ELSE IF Len(parts) = 1 THEN parts[1]
    ELSE parts[1] \o <<" ">> \o JoinSpace(Tail(parts))

\* str(n) of a natural number
RECURSIVE StrNat(_)
StrNat(n) ==
    LET digit == <<"0", "1", "2", "3", "4", "5", "6", "7", "8", "9">>[(n % 10) + 1]
    IN  IF n < 10 THEN <<digit>> ELSE StrNat(n \div 10) \o <<digit>>

\* float(x) of an int: the same number
Float(x) == x

-----------------------------------------------------------------------------
(* jobspy/reed/constant.py and util.py *)

REED_REMOTE_PATTERNS ==
    << <<"r", "e", "m", "o", "t", "e">>,
       <<"w", "o", "r", "k", " ", "f", "r", "o", "m", " ", "h", "o", "m", "e">>,
       <<"w", "f", "h">>,
       <<"h", "o", "m", "e", " ", "b", "a", "s", "e", "d">>,
       <<"a", "n", "y", "w", "h", "e", "r", "e", " ", "i", "n", " ", "u", "k">>,
       <<"l", "o", "c", "a", "t", "i", "o", "n", " ", "f", "l", "e", "x", "i", "b", "l", "e">> >>

\* is_job_remote(location_name: str | None, description: str | None)
is_job_remote(loc, description) ==
    IF (loc = None \/ loc = Some(<<>>)) /\ (description = None \/ description = Some(<<>>))
    THEN FALSE
    ELSE LET text_to_check ==
                 (IF loc # None /\ loc # Some(<<>>) THEN <<Lower(loc[1])>> ELSE <<>>)
                 \o (IF description # None /\ description # Some(<<>>)
                     THEN <<Lower(description[1])>> ELSE <<>>)
             combined_text == JoinSpace(text_to_check)
         IN  \E i \in 1..Len(REED_REMOTE_PATTERNS) :
                 Contains(combined_text, REED_REMOTE_PATTERNS[i])

\* parse_location(location_name: str | None) -> Location | None
parse_location(loc) ==
    IF loc = None \/ loc = Some(<<>>) THEN None
    ELSE LET stripped == Strip(loc[1])
             parts == Split(stripped)
             city == IF parts # <<>> THEN Strip(parts[1]) ELSE stripped
             state == IF Len(parts) > 1 THEN Some(Strip(parts[2])) ELSE None
         IN  Some([city |-> city, state |-> state, country |-> "UK"])

-----------------------------------------------------------------------------
(* ReedScraper._parse_job *)

\* str(job_data.get("jobId", "")): a missing key gives "", a null gives "None"
JobIdStr(entry) ==
    IF entry.t = "absent" THEN <<>>
    ELSE IF entry.t = "null" THEN <<"N", "o", "n", "e">>
    ELSE StrNat(entry.v)

\* the title check left out
NotTitleNever(title) == FALSE

\* `if not title` (line 185)
NotTitle(title) == title = <<>>

\* truth value of a number, as in `float(x) if x else None`
Truthy(x) == x # 0

\* f"https://www.reed.co.uk/jobs/{job_id}" or the hash-of-title fallback; the
\* text is kept as a sequence of pieces and hash(title) as the piece "hash:"
\* followed by the title it was computed from
JobUrl(job_id, title) ==
    IF job_id # <<>>
    THEN <<"https://www.reed.co.uk/jobs/">> \o job_id
    ELSE <<"https://www.reed.co.uk/jobs/unknown-", "hash:">> \o title

\* lines 200-212
ParseCompensation(min_salary, max_salary) ==
    IF min_salary # None \/ max_salary # None
    THEN Some([min_amount |-> IF min_salary # None /\ Truthy(min_salary[1])
                              THEN Some(Float(min_salary[1])) ELSE None,
               max_amount |-> IF max_salary # None /\ Truthy(max_salary[1])
                              THEN Some(Float(max_salary[1])) ELSE None,
               currency |-> "GBP",
               interval |-> "YEARLY"])
    ELSE None

\* _parse_job(job_data) -> JobPost | None.  Calling .strip() on a null
\* jobTitle, employerName or jobDescription raises AttributeError, which the
\* except clause of line 245 turns into None.
_parse_job(d) ==
    LET job_id == JobIdStr(d.jobId)
        raw_title == GetOrEmpty(d.jobTitle)
        raw_company == GetOrEmpty(d.employerName)
        raw_description == GetOrEmpty(d.jobDescription)
    IN  IF raw_title = None \/ raw_company = None THEN None
        ELSE IF NotTitle(Strip(raw_title[1])) THEN None
        ELSE IF raw_description = None THEN None
        ELSE LET title == Strip(raw_title[1])
                 company_name == Strip(raw_company[1])
                 job_url == JobUrl(job_id, title)
                 external_url == Get(d.externalUrl)
                 description == Strip(raw_description[1])
             IN  Some([id |-> job_id,
                       title |-> title,
                       company_name |-> company_name,
                       job_url |-> job_url,
                       job_url_direct |->
                           IF external_url # None /\ external_url[1] # <<>>
                           THEN external_url[1] ELSE job_url,
                       location |-> parse_location(Get(d.locationName)),
                       description |->
                           IF description # <<>> THEN Some(description) ELSE None,
                       compensation |->
                           ParseCompensation(Get(d.minimumSalary), Get(d.maximumSalary)),
                       date_posted |-> None,
                       job_type |-> None,
                       is_remote |->
                           is_job_remote(Get(d.locationName), Some(description))])

-----------------------------------------------------------------------------
(* format_reed_search_params and ReedScraper._fetch_jobs *)

ApiMax == 100

DefaultResultsWanted == 15

DefaultDistance == 10

\* format_reed_search_params(...) -> dict; a key the dict lacks is None here.
\* hours_old is accepted and ignored.
format_reed_search_params(keywords, loc, distance, is_remote, job_type, hours_old, take, skip) ==
    [resultsToTake |-> Min(take, ApiMax),
     resultsToSkip |-> skip,
     distanceFromLocation |-> Min(distance, ApiMax),
     keywords |-> IF keywords # None /\ keywords # Some(<<>>) THEN keywords ELSE None,
     locationName |->
         IF loc # None /\ loc # Some(<<>>) /\ ~is_remote THEN loc ELSE None,
     fullTime |-> IF job_type = Some("FULL_TIME") THEN Some("true") ELSE None,
     partTime |-> IF job_type = Some("PART_TIME") THEN Some("true") ELSE None,
     contract |-> IF job_type = Some("CONTRACT") THEN Some("true") ELSE None,
     temp |-> IF job_type = Some("TEMPORARY") THEN Some("true") ELSE None,
     permanent |-> IF job_type = Some("FULL_TIME") THEN Some("true") ELSE None]

\* What session.get(...), raise_for_status() and response.json() come to:
\*   "error"  a RequestException (transport failure or non-2xx status)
\*   "dict"   a JSON object with a "results" list
\*   "list"   a bare JSON list
\*   "other"  any other JSON value
HttpError == [kind |-> "error"]

HttpOther == [kind |-> "other"]

HttpDict(jobs) == [kind |-> "dict", jobs |-> jobs]

HttpList(jobs) == [kind |-> "list", jobs |-> jobs]

\* _fetch_jobs without its except clauses: a failed GET propagates
FetchJobsRaising(outcome) ==
    IF outcome.kind = "error" THEN [raised |-> TRUE, value |-> None]
    ELSE IF outcome.kind = "other" THEN [raised |-> FALSE, value |-> Some(<<>>)]
    ELSE [raised |-> FALSE, value |-> Some(outcome.jobs)]

\* _fetch_jobs, given what the GET came to: the value it returns, and whether
\* it raised instead (it never does: both except clauses return None)
_fetch_jobs(outcome) ==
    IF outcome.kind = "error" THEN [raised |-> FALSE, value |-> None]
    ELSE IF outcome.kind = "dict" THEN [raised |-> FALSE, value |-> Some(outcome.jobs)]
    ELSE IF outcome.kind = "list" THEN [raised |-> FALSE, value |-> Some(outcome.jobs)]
    ELSE [raised |-> FALSE, value |-> Some(<<>>)]

-----------------------------------------------------------------------------
(* ReedScraper.scrape *)

\* `x or default` on an optional int: None and 0 are both falsy
OrDefault(x, default) == IF x = None \/ x[1] = 0 THEN default ELSE x[1]

\* the page size without the cap of line 75
CurrentPageSizeUncapped(per_page, wanted, total) == wanted - total

\* lines 81-82
CurrentPageSize(per_page, wanted, total) == Min(per_page, wanted - total)

\* `if not jobs_batch` (line 99): None and the empty list both stop the loop
NotBatch(batch) == batch = None \/ batch[1] = <<>>

\* `if total_fetched >= results_wanted: break` (lines 109-110)
WantedReached(total, wanted) == total >= wanted

\* the for loop of lines 103-113 over the records of one page: every record
\* is parsed in turn, a posting is appended and counted, and the loop is left
\* at the first posting with which the count reaches results_wanted
ParseBatch(batch, jobs, total, wanted) ==
    LET parsed == [i \in 1..Len(batch) |-> _parse_job(batch[i])]
        IsPost(p) == p # None
        posts == SelectSeq(parsed, IsPost)
        breaks == {m \in 1..Len(posts) : WantedReached(total + m, wanted)}
        taken == IF breaks = {} THEN Len(posts)
                 ELSE CHOOSE m \in breaks : \A k \in breaks : m <= k
    IN  [job_list |-> jobs \o [i \in 1..taken |-> posts[i][1]],
         total_fetched |-> total + taken]

\* the end-of-results test off by one
EndOfResultsShort(batch, current_page_size) == Len(batch) < current_page_size - 1

\* `if len(jobs_batch) < current_page_size` (line 115)
EndOfResults(batch, current_page_size) == Len(batch) < current_page_size

\* the offset advanced by the postings kept instead of the records fetched
NextSkipKept(skip, batch) ==
    skip + Cardinality({i \in 1..Len(batch) : _parse_job(batch[i]) # None})

\* the offset never advanced
NextSkipStuck(skip, batch) == skip

\* `results_to_skip += len(jobs_batch)` (line 119)
NextSkip(skip, batch) == skip + Len(batch)

\* scrape(scraper_input) up to its first fetch, lines 71-78; when the test of
\* the while loop (line 80) is false on entry, which a negative results_wanted
\* makes it, no request is issued and line 121 returns the empty list
Scrape(inputs) ==
    /\ pc = "idle"
    /\ \E inp \in inputs :
          /\ scraper_input' = inp
          /\ results_wanted' = OrDefault(inp.results_wanted, DefaultResultsWanted)
          /\ results_per_page' =
                 Min(ApiMax, OrDefault(inp.results_wanted, DefaultResultsWanted))
          /\ results_to_skip' = OrDefault(inp.offset, 0)
          /\ pc' = IF 0 < OrDefault(inp.results_wanted, DefaultResultsWanted)
                   THEN "loop" ELSE "done"
          /\ result' = IF 0 < OrDefault(inp.results_wanted, DefaultResultsWanted)
                       THEN None ELSE Some(<<>>)
    /\ total_fetched' = 0
    /\ job_list' = <<>>
    /\ UNCHANGED <<jobs_batch, history, vendor, parseVars>>

\* current_page_size of the iteration about to run (lines 81-82)
PageSize == CurrentPageSize(results_per_page, results_wanted, total_fetched)

\* the query parameters of the request about to be issued (lines 88-97, 138-147)
Params ==
    format_reed_search_params(
        scraper_input.search_term, scraper_input.location,
        OrDefault(scraper_input.distance, DefaultDistance),
        scraper_input.is_remote, scraper_input.job_type,
        scraper_input.hours_old, PageSize, results_to_skip)

\* one iteration of the while loop (lines 80-119), and the return of line 121
\* when the iteration ends the loop.  outcomes is the set of things the GET
\* with the query parameters Params can come to.
Page(outcomes) ==
    /\ pc = "loop"
    /\ total_fetched < results_wanted
    /\ LET current_page_size == PageSize
           params == Params
       IN  \E outcome \in outcomes :
             LET fetched == _fetch_jobs(outcome)
                 entry == [params |-> params,
                           page_size |-> current_page_size,
                           before |-> job_list,
                           got |-> IF fetched.value = None THEN None
                                   ELSE Some(Len(fetched.value[1]))]
             IN  /\ history' = Append(history, entry)
                 /\ IF fetched.raised
                    THEN /\ pc' = "raised"
                         /\ UNCHANGED <<jobs_batch, job_list, total_fetched,
                                        results_to_skip, result>>
                    ELSE /\ jobs_batch' = fetched.value
                         /\ IF NotBatch(fetched.value)
                            THEN /\ pc' = "done"
                                 /\ result' = Some(job_list)
                                 /\ UNCHANGED <<job_list, total_fetched, results_to_skip>>
                            ELSE LET batch == fetched.value[1]
                                     parsed == ParseBatch(batch, job_list, total_fetched,
                                                          results_wanted)
                                     stop == EndOfResults(batch, current_page_size)
                                     again == ~stop
                                              /\ parsed.total_fetched < results_wanted
                                 IN  /\ job_list' = parsed.job_list
                                     /\ total_fetched' = parsed.total_fetched
                                     /\ results_to_skip' =
                                            IF stop THEN results_to_skip
                                            ELSE NextSkip(results_to_skip, batch)
                                     /\ pc' = IF again THEN "loop" ELSE "done"
                                     /\ result' = IF again THEN None
                                                  ELSE Some(parsed.job_list)
    /\ UNCHANGED <<scraper_input, results_wanted, results_per_page, vendor, parseVars>>

-----------------------------------------------------------------------------
(* Inputs of the direct calls of _parse_job and parse_location *)

MaxTitleLen == 2

MaxLocLen == 5

Strings(alphabet, n) == UNION {[1..k -> alphabet] : k \in 0..n}

OptText(texts) == {Absent, Null} \cup {Val(s) : s \in texts}

OptNumber(numbers) == {Absent, Null} \cup {Val(n) : n \in numbers}

TitleTexts == Strings({"a", " ", "\n"}, MaxTitleLen)

LocationTexts == Strings({"a", ",", " ", "\t"}, MaxLocLen)

SampleLocations ==
    { <<"R", "e", "m", "o", "t", "e", ",", " ", "U", "K">>,
      <<"L", "o", "n", "d", "o", "n", ",", " ", "G", "r", "e", "a", "t", "e", "r",
        " ", "L", "o", "n", "d", "o", "n">>,
      <<"M", "a", "n", "c", "h", "e", "s", "t", "e", "r">> }

RawJobs ==
    [jobId : {Absent, Null, Val(42)},
     jobTitle : OptText(TitleTexts),
     employerName : {Absent, Null, Val(<<" ", "a">>)},
     locationName : {Absent} \cup {Val(s) : s \in SampleLocations},
     minimumSalary : OptNumber({0, 30000}),
     maximumSalary : OptNumber({0, 50000}),
     jobDescription : {Absent, Null, Val(<<"W", "F", "H", " ">>)},
     externalUrl : {Absent, Val(<<>>), Val(<<"u">>)}]

NoJob ==
    [jobId |-> Absent, jobTitle |-> Absent, employerName |-> Absent,
     locationName |-> Absent, minimumSalary |-> Absent, maximumSalary |-> Absent,
     jobDescription |-> Absent, externalUrl |-> Absent]

ScrapeIdle ==
    /\ pc = "idle"
    /\ scraper_input = [results_wanted |-> None, offset |-> None]
    /\ results_wanted = 0
    /\ results_per_page = 0
    /\ results_to_skip = 0
    /\ total_fetched = 0
    /\ job_list = <<>>
    /\ jobs_batch = None
    /\ history = <<>>
    /\ result = None

NoCall ==
    /\ call = "none"
    /\ job_data = NoJob
    /\ job_post = None
    /\ location_name = None
    /\ location = None

\* the caller has picked a function and its argument; no scrape is running
ParseInit ==
    /\ ScrapeIdle
    /\ vendor = <<>>
    /\ \/ /\ call = "_parse_job"
          /\ job_data \in RawJobs
          /\ job_post = None
          /\ location_name = None
          /\ location = None
       \/ /\ call = "parse_location"
          /\ job_data = NoJob
          /\ job_post = None
          /\ location_name \in {None} \cup {Some(s) : s \in LocationTexts}
          /\ location = None

\* a direct call of _parse_job
CallParseJob ==
    /\ call = "_parse_job"
    /\ job_post' = _parse_job(job_data)
    /\ call' = "_parse_job returned"
    /\ UNCHANGED <<job_data, location_name, location, scrapeVars>>

\* a direct call of parse_location
CallParseLocation ==
    /\ call = "parse_location"
    /\ location' = parse_location(location_name)
    /\ call' = "parse_location returned"
    /\ UNCHANGED <<location_name, job_data, job_post, scrapeVars>>

-----------------------------------------------------------------------------
(* The callers and the vendor *)

MaxWanted == 3

MaxNegative == 1

MaxOver == 1

MaxOffset == 1

MaxPages == 3

MaxVendorLen == 3

MaxTail == 1

\* a record that normalises to a posting
GoodJob(i) ==
    [jobId |-> Val(i), jobTitle |-> Val(<<" ", "a">>), employerName |-> Val(<<"a">>),
     locationName |-> Absent, minimumSalary |-> Absent, maximumSalary |-> Absent,
     jobDescription |-> Absent, externalUrl |-> Absent]

\* a record that does not: no title, a blank title, a null title, or a title
\* but a null employer name
BadJob(i) ==
    [GoodJob(i) EXCEPT
        !.jobTitle = CASE i % 4 = 0 -> Absent
                       [] i % 4 = 1 -> Val(<<" ", "\t">>)
                       [] i % 4 = 2 -> Null
                       [] OTHER -> Val(<<"a">>),
        !.employerName = IF i % 4 = 3 THEN Null ELSE Val(<<"a">>)]

RecordKinds == {"good", "bad"}

BatchKinds == {"good", "bad", "mixed"}

JobOfKind(kind, i) ==
    CASE kind = "good" -> GoodJob(i)
      [] kind = "bad" -> BadJob(i)
      [] OTHER -> IF i % 2 = 1 THEN BadJob(i) ELSE GoodJob(i)

ScraperInputs ==
    [results_wanted : {None} \cup {Some(n) : n \in (0 - MaxNegative)..MaxWanted}
                             \cup {Some(ApiMax + n) : n \in 0..MaxOver},
     offset : {None} \cup {Some(k) : k \in 0..MaxOffset},
     search_term : {None},
     location : {Some(<<"a">>)},
     distance : {None, Some(2 * ApiMax)},
     is_remote : {FALSE},
     job_type : {Some("FULL_TIME")},
     hours_old : {None}]

\* any vendor: a failure, an unexpected shape, or a page of any length around
\* the length asked for, whatever the records in it
ArbitraryRespond(params) ==
    LET lens == {n \in {0, params.resultsToTake - 1, params.resultsToTake,
                        params.resultsToTake + 1} : n >= 0}
        batches == {[i \in 1..n |-> JobOfKind(k, params.resultsToSkip + i)] :
                        n \in lens, k \in BatchKinds}
    IN  {HttpError, HttpOther} \cup {HttpDict(b) : b \in batches}
                               \cup {HttpList(b) : b \in batches}

\* a vendor with a fixed finite result set, which may also fail
VendorRespond(params) ==
    {HttpError,
     HttpDict(SubSeq(vendor, params.resultsToSkip + 1,
                     Min(params.resultsToSkip + params.resultsToTake, Len(vendor))))}

Vendors ==
    LET kinds == Strings(RecordKinds, MaxVendorLen)
                 \cup {[i \in 1..ApiMax |-> k] \o t :
                          k \in RecordKinds, t \in Strings(RecordKinds, MaxTail)}
    IN  {[i \in 1..Len(ks) |-> JobOfKind(ks[i], i)] : ks \in kinds}

Init == ScrapeIdle /\ vendor = <<>> /\ NoCall

Start == Scrape(ScraperInputs)

ArbitraryPage == Len(history) < MaxPages /\ Page(ArbitraryRespond(Params))

Next == Start \/ ArbitraryPage

Spec == Init /\ [][Next]_vars

VendorInit == ScrapeIdle /\ vendor \in Vendors /\ NoCall

\* the loop issues at most Len(vendor) + 1 requests against this vendor; the
\* guard allows one more
VendorPage == Len(history) < Len(vendor) + 2 /\ Page(VendorRespond(Params))

VendorNext == Start \/ VendorPage

VendorSpec == VendorInit /\ [][VendorNext]_vars

FairVendorSpec == VendorSpec /\ WF_vars(VendorNext)

ParseNext == CallParseJob \/ CallParseLocation

ParseSpec == ParseInit /\ [][ParseNext]_vars

-----------------------------------------------------------------------------
(* Vocabulary of the properties *)

\* the count the caller asked for: results_wanted, 15 when none is given
Requested ==
    IF scraper_input.results_wanted = None THEN DefaultResultsWanted
    ELSE scraper_input.results_wanted[1]

\* the offset the caller asked for, 0 when none is given
RequestedOffset ==
    IF scraper_input.offset = None THEN 0 ELSE scraper_input.offset[1]

\* the record has a title that is not blank
HasTitle(d) ==
    /\ d.jobTitle.t = "val"
    /\ \E i \in 1..Len(d.jobTitle.v) : d.jobTitle.v[i] \notin Whitespace

\* the record normalises to a posting: it has a title and none of the texts
\* that _parse_job trims is null
Normalizes(d) ==
    /\ HasTitle(d)
    /\ d.employerName.t # "null"
    /\ d.jobDescription.t # "null"

\* the posting comes from the record
PostingOf(post, d) ==
    /\ post.id = JobIdStr(d.jobId)
    /\ post.title # <<>>
    /\ \E i \in 1..Len(d.jobTitle.v) : SubSeq(d.jobTitle.v, i, i + Len(post.title) - 1) = post.title

HasComma(s) == \E i \in 1..Len(s) : s[i] = ","

FirstComma(s) == CHOOSE i \in 1..Len(s) : s[i] = "," /\ \A j \in 1..(i - 1) : s[j] # ","

BeforeFirstComma(s) == IF HasComma(s) THEN SubSeq(s, 1, FirstComma(s) - 1) ELSE s

AfterFirstComma(s) == SubSeq(s, FirstComma(s) + 1, Len(s))

Trimmed(s) ==
    LET inked == {i \in 1..Len(s) : s[i] \notin Whitespace}
    IN  IF inked = {} THEN <<>>
        ELSE SubSeq(s, CHOOSE a \in inked : \A i \in inked : a <= i,
                       CHOOSE b \in inked : \A i \in inked : i <= b)

-----------------------------------------------------------------------------
(* Properties *)

\* C1: the list scrape returns holds at most as many postings as the caller
\* requested, for every requested count including 0 (a count is a natural
\* number: no list holds fewer than 0 postings).
C1_AtMostRequested ==
    (pc = "done" /\ Requested >= 0) => Len(result[1]) <= Requested

\* C2: a failed page fetch is the last request of the call; scrape raises
\* nothing and returns exactly the postings accumulated before that request.
C2_FailureEndsScrape ==
    \A i \in 1..Len(history) :
        history[i].got = None =>
            /\ i = Len(history)
            /\ pc = "done"
            /\ result = Some(history[i].before)

C2_Witness ==
    /\ pc = "done"
    /\ Len(history) >= 2
    /\ history[Len(history)].got = None
    /\ Len(result[1]) >= 1

\* C3: a page that returns fewer records than the page size requested for it
\* is the last request of the call.
C3_ShortPageIsLast ==
    \A i \in 1..Len(history) :
        (history[i].got # None /\ history[i].got[1] < history[i].params.resultsToTake)
            => (i = Len(history) /\ pc = "done")

C3_Witness ==
    /\ pc = "done"
    /\ Len(history) >= 2
    /\ history[Len(history)].got # None
    /\ history[Len(history)].got[1] >= 1
    /\ history[Len(history)].got[1] < history[Len(history)].params.resultsToTake

\* C4: no posting collected or returned has an empty title; the records of a
\* page without a title are dropped and the page's other records are still
\* processed, in order, until the wanted count is reached.
C4_NoEmptyTitle ==
    /\ \A i \in 1..Len(job_list) : job_list[i].title # <<>>
    /\ result # None => \A i \in 1..Len(result[1]) : result[1][i].title # <<>>
    /\ (history # <<>> /\ pc # "raised" /\ jobs_batch # None) =>
          LET before == history[Len(history)].before
              kept == SelectSeq(jobs_batch[1], Normalizes)
              k == Min(Len(kept), results_wanted - Len(before))
          IN  /\ \A i \in 1..Len(jobs_batch[1]) :
                    ~HasTitle(jobs_batch[1][i]) => ~Normalizes(jobs_batch[1][i])
              /\ Len(job_list) = Len(before) + k
              /\ SubSeq(job_list, 1, Len(before)) = before
              /\ \A j \in 1..k : PostingOf(job_list[Len(before) + j], kept[j])

C4_Witness ==
    /\ pc = "done"
    /\ jobs_batch # None
    /\ Len(jobs_batch[1]) >= 2
    /\ ~HasTitle(jobs_batch[1][1])
    /\ HasTitle(jobs_batch[1][2])
    /\ Len(job_list) > Len(history[Len(history)].before)

\* C5: a posting has no compensation exactly when both salaries are absent;
\* otherwise the compensation is in GBP per year and each amount is the
\* supplied salary as a number when that salary is present, absent otherwise,
\* for every salary value including 0.
C5_Compensation ==
    (call = "_parse_job returned" /\ job_post # None) =>
        LET min_salary == Get(job_data.minimumSalary)
            max_salary == Get(job_data.maximumSalary)
            compensation == job_post[1].compensation
        IN  /\ compensation = None <=> (min_salary = None /\ max_salary = None)
            /\ compensation # None =>
                  /\ compensation[1].currency = "GBP"
                  /\ compensation[1].interval = "YEARLY"
                  /\ compensation[1].min_amount = min_salary
                  /\ compensation[1].max_amount = max_salary

\* C6 as stated: the city is the trimmed text before the first comma, the
\* region is all the text after the first comma, the country is UK, and empty
\* or missing text gives no location.
C6_RegionIsAllAfterFirstComma ==
    call = "parse_location returned" =>
        IF location_name = None \/ location_name = Some(<<>>) THEN location = None
        ELSE /\ location # None
             /\ location[1].country = "UK"
             /\ location[1].city = Trimmed(BeforeFirstComma(location_name[1]))
             /\ location[1].state =
                    IF HasComma(location_name[1])
                    THEN Some(Trimmed(AfterFirstComma(location_name[1])))
                    ELSE None

\* C6 amended: the city is the trimmed text before the first comma, the region
\* is the trimmed text between the first comma and the second (or the end of
\* the text when there is one comma only; absent when there is none), the
\* country is UK, and empty or missing text gives no location.
C6_RegionIsSecondPart ==
    call = "parse_location returned" =>
        IF location_name = None \/ location_name = Some(<<>>) THEN location = None
        ELSE /\ location # None
             /\ location[1].country = "UK"
             /\ location[1].city = Trimmed(BeforeFirstComma(location_name[1]))
             /\ location[1].state =
                    IF HasComma(location_name[1])
                    THEN Some(Trimmed(BeforeFirstComma(AfterFirstComma(location_name[1]))))
                    ELSE None

C6_Witness ==
    /\ call = "parse_location returned"
    /\ location_name = Some(<<"a", ",", "a", ",", "a">>)
    /\ location = Some([city |-> <<"a">>, state |-> Some(<<"a">>), country |-> "UK"])

\* C7: every request asks for min(100, requested count - postings accumulated
\* so far) records, a number between 1 and 100 that never exceeds the number
\* of postings still wanted.
C7_PageSize ==
    \A i \in 1..Len(history) :
        LET take == history[i].params.resultsToTake
            still_wanted == Requested - Len(history[i].before)
        IN  /\ take = Min(ApiMax, still_wanted)
            /\ take >= 1
            /\ take <= ApiMax
            /\ take <= still_wanted

\* C8: the first request skips the caller's offset (0 when none is given);
\* each later request skips what the previous one skipped plus the number of
\* raw records the previous page returned; the offsets strictly increase.
C8_SkipAdvancesByRecords ==
    history # <<>> =>
        /\ history[1].params.resultsToSkip = RequestedOffset
        /\ \A i \in 1..(Len(history) - 1) :
              /\ history[i].got # None
              /\ history[i + 1].params.resultsToSkip =
                     history[i].params.resultsToSkip + history[i].got[1]
              /\ history[i + 1].params.resultsToSkip > history[i].params.resultsToSkip

C8_Witness ==
    /\ Len(history) >= 2
    /\ RequestedOffset >= 1
    /\ history[1].got # None
    /\ Len(history[2].before) - Len(history[1].before) < history[1].got[1]
    /\ history[2].params.resultsToSkip = RequestedOffset + history[1].got[1]

\* C9: against a vendor with a finite result set every scrape call returns.
C9_ScrapeReturns == <>(pc = "done")

\* a call that returned after a full page of records that were all dropped
C9_Witness ==
    /\ pc = "done"
    /\ \E i \in 1..(Len(history) - 1) :
          /\ history[i].got = Some(history[i].params.resultsToTake)
          /\ history[i + 1].before = history[i].before

\* C10: against a vendor that never fails, scrape with requested count N >= 1
\* and offset k returns, in vendor order, the first N records that normalise
\* among the vendor's records after position k (all of them when there are
\* fewer); the pages requested are adjacent and no record is emitted twice.
C10_FirstNFromOffset ==
    (/\ pc = "done"
     /\ scraper_input.results_wanted # None
     /\ Requested >= 1
     /\ \A i \in 1..Len(history) : history[i].got # None) =>
        LET kept == SelectSeq(SubSeq(vendor, RequestedOffset + 1, Len(vendor)), Normalizes)
            n == Min(Requested, Len(kept))
            jobs == result[1]
        IN  /\ Len(jobs) = n
            /\ \A j \in 1..n : PostingOf(jobs[j], kept[j])
            /\ \A a, b \in 1..Len(jobs) : jobs[a].id = jobs[b].id => a = b
            /\ history[1].params.resultsToSkip = RequestedOffset
            /\ \A i \in 1..(Len(history) - 1) :
                  history[i + 1].params.resultsToSkip =
                      history[i].params.resultsToSkip + history[i].got[1]

C10_Witness ==
    /\ pc = "done"
    /\ Requested = ApiMax + 1
    /\ RequestedOffset = 0
    /\ Len(history) = 2
    /\ history[2].got = Some(1)
    /\ Len(result[1]) = ApiMax + 1

====
